---- MODULE Spec2Model ----
(***************************************************************************)
(* Model of llama/generation.py: the batched decoding loop Llama.generate, *)
(* the nucleus sampler sample_top_p and the dialog encoder of              *)
(* Llama.chat_completion, with the tokenizer wrapper of llama/tokenizer.py.*)
(* Python lists are sequences; a 0-based index j of the code is the        *)
(* element j + 1 of the sequence.                                          *)
(***************************************************************************)
EXTENDS Integers, Sequences, FiniteSets, TLC

\* ---------------------------------------------------------------- bounds
MaxPromptLen == 2
MaxSeqLen == 4
MaxGenLen == 2
MaxBatch == 2
MaxDialogLen == 3
\* question_loop: the inputs one session asks for
MaxInputs == 3
\* sample_top_p: the entries of one distribution, and the number of equal
\* parts its mass is counted in
NumCandidates == 3
ProbGrid == 6

\* ------------------------------------------------------------- tokenizer
\* Ids of the SentencePiece model (tokenizer.py:37-40); the pad id of the
\* Llama vocabulary is disabled, i.e. -1, and is never an encoded token.
bos_id == 1
eos_id == 2
pad_id == 0 - 1
n_words == 10
Vocab == 0 .. (n_words - 1)

\* Text is a sequence of symbols: a letter, the two white-space characters and
\* the four control tags.  sp_model.Encode and sp_model.Decode are external;
\* they are modelled as the piece table below, which has no piece for the
\* control ids.
SymId(c) ==
  CASE c = "a" -> 0
    [] c = " " -> 3
    [] c = "\n" -> 4
    [] c = "[INST]" -> 5
    [] c = "[/INST]" -> 6
    [] c = "<<SYS>>" -> 7
    [] c = "<</SYS>>" -> 8
    [] OTHER -> 9

IdSym(t) ==
  CASE t = 0 -> "a"
    [] t = 3 -> " "
    [] t = 4 -> "\n"
    [] t = 5 -> "[INST]"
    [] t = 6 -> "[/INST]"
    [] t = 7 -> "<<SYS>>"
    [] t = 8 -> "<</SYS>>"
    [] OTHER -> "E"

tok_a == SymId("a")

\* ------------------------------------------------------- python helpers
\* s[a:b] for 0 <= a, with b clipped to len(s)
Slice(s, a, b) ==
  LET hi == IF b < Len(s) THEN b ELSE Len(s)
  IN  IF a >= hi THEN <<>> ELSE SubSeq(s, a + 1, hi)

\* s[j], 0-based
At(s, j) == s[j + 1]

Min(a, b) == IF a < b THEN a ELSE b

MinOf(S) == CHOOSE x \in S : \A y \in S : x <= y
MaxOf(S) == CHOOSE x \in S : \A y \in S : x >= y

RECURSIVE SumSeq(_)
SumSeq(s) == IF s = <<>> THEN 0 ELSE Head(s) + SumSeq(Tail(s))

\* toks.index(x): 0-based position of the first occurrence
IndexOf(s, x) == MinOf({j \in 0 .. (Len(s) - 1) : At(s, j) = x})

Contains(s, x) == \E j \in 1 .. Len(s) : s[j] = x

\* tag in content
IsSubstring(t, s) ==
  \E i \in 0 .. (Len(s) - Len(t)) : SubSeq(s, i + 1, i + Len(t)) = t

IsSpace(c) == c \in {" ", "\n"}

RECURSIVE LStrip(_)
LStrip(s) == IF s # <<>> /\ IsSpace(Head(s)) THEN LStrip(Tail(s)) ELSE s

RECURSIVE RStrip(_)
RStrip(s) ==
  IF s # <<>> /\ IsSpace(s[Len(s)]) THEN RStrip(SubSeq(s, 1, Len(s) - 1)) ELSE s

\* str.strip()
Strip(s) == RStrip(LStrip(s))

RECURSIVE Concat(_)
Concat(ss) == IF ss = <<>> THEN <<>> ELSE Head(ss) \o Concat(Tail(ss))

\* Tokenizer.encode
encode(input_string, bos, eos) ==
  (IF bos THEN <<bos_id>> ELSE <<>>)
    \o [j \in 1 .. Len(input_string) |-> SymId(input_string[j])]
    \o (IF eos THEN <<eos_id>> ELSE <<>>)

\* sp_model.Decode: control ids have no text
RECURSIVE Decode(_)
Decode(t) ==
  IF t = <<>> THEN <<>>
  ELSE (IF Head(t) \in {bos_id, eos_id, pad_id} THEN <<>> ELSE <<IdSym(Head(t))>>)
         \o Decode(Tail(t))

\* ---------------------------------------------------- model capability
\* Transformer.forward is external.  Its result for one row is a function of
\* the tokens of that row up to the end of the window (the earlier columns
\* live in the model's cache).  A model m of the family below returns, for a
\* context, one of four weight vectors over the vocabulary; the weights are
\* in tenths and stand for softmax(logits / temperature), which orders the
\* tokens as the logits do.

ProbTable(h) ==
  CASE h = 0 -> [v \in Vocab |-> IF v = tok_a THEN 6 ELSE IF v = eos_id THEN 3
                              ELSE IF v = bos_id THEN 1 ELSE 0]
    [] h = 1 -> [v \in Vocab |-> IF v = eos_id THEN 7 ELSE IF v = tok_a THEN 3 ELSE 0]
    [] h = 2 -> [v \in Vocab |-> IF v = tok_a THEN 5 ELSE IF v = eos_id THEN 5 ELSE 0]
    [] OTHER -> [v \in Vocab |-> IF v = bos_id THEN 4 ELSE IF v = tok_a THEN 4
                              ELSE IF v = eos_id THEN 2 ELSE 0]

forward(m, ctx) == ProbTable((SumSeq(ctx) + Len(ctx) + m) % 4)

\* torch.argmax: the first index holding the maximal value
argmax(probs) ==
  MinOf({v \in Vocab : \A w \in Vocab : probs[w] <= probs[v]})

\* sample_top_p: the tokens one draw can return.  torch.sort orders equal
\* probabilities arbitrarily, so the mass ranked before a token t is the mass
\* of the strictly larger entries plus that of the ties sorted before it;
\* t survives the mask (probs_sum - probs_sort > p) under some order exactly
\* when the strictly larger mass is <= p.  torch.multinomial never draws an
\* entry of probability zero.
MassAbove(probs, t) ==
  LET above == {v \in Vocab : probs[v] > probs[t]}
      RECURSIVE Sum(_)
      Sum(S) == IF S = {} THEN 0
                ELSE LET v == CHOOSE v \in S : TRUE IN probs[v] + Sum(S \ {v})
  IN  Sum(above)

sample_top_p(probs, p) ==
  {t \in Vocab : probs[t] > 0 /\ ~(MassAbove(probs, t) > p)}

\* lines 335-340: the candidates for next_token of one row
NextTokenChoicesMut(probs, temp, p) == sample_top_p(probs, p)
NextTokenChoices(probs, temp, p) ==
  IF temp > 0 THEN sample_top_p(probs, p) ELSE {argmax(probs)}

\* ------------------------------------------------------------ the state
VARIABLES
  prompt_tokens,    \* generate's argument: the batch of prompts
  max_gen_len, temperature, top_p, echo,
  max_seq_len, max_batch_size, model,
  logprobs,         \* generate's argument: log-probabilities are requested
  tokens,           \* the token matrix, one sequence per row
  input_text_mask,  \* tokens != pad_id, taken before the loop
  token_logprobs,   \* one entry per column of the matrix, or None
  total_len, min_prompt_len,
  prev_pos, cur_pos, eos_reached,
  calls,            \* the forward calls made: column window and start position
  out_tokens,       \* generate's result
  out_logprobs,     \* the second component of generate's result
  pc, raised,
  runs, prev_out,   \* number of the current call on this batch, result of the previous one
  prev_prompts,     \* the batch of the previous call
  row_alone,        \* its row that the current call decodes alone, 0 for the whole batch
  dialogs,          \* chat_completion's argument, the caller's lists and messages
  d_idx,            \* the dialog the loop of chat_completion is at
  unsafe_requests,
  normalized,       \* per dialog, the list the local name dialog is bound to after folding
  result,           \* chat_completion's return value
  caller,           \* who called generate
  probs_in, p_in,   \* sample_top_p's arguments: one distribution and the threshold
  probs_sort, probs_idx,
  drawn_rank,       \* the index torch.multinomial returned
  drawn_token,      \* sample_top_p's result
  sp_pc,            \* position in sample_top_p
  message_history,  \* Steve's dialog with the user
  steve_pc,         \* position in question_loop
  asked             \* the calls of ask_for_input so far

genvars == <<prompt_tokens, max_gen_len, temperature, top_p, echo,
             max_seq_len, max_batch_size, model, logprobs, tokens,
             input_text_mask, token_logprobs, out_logprobs,
             total_len, min_prompt_len, prev_pos, cur_pos, eos_reached,
             calls, out_tokens, pc, raised, runs, prev_out,
             prev_prompts, row_alone>>

chatvars == <<dialogs, d_idx, unsafe_requests, normalized, result, caller>>

samplevars == <<probs_in, p_in, probs_sort, probs_idx, drawn_rank,
                drawn_token, sp_pc>>

stevevars == <<message_history, steve_pc, asked>>

vars == <<genvars, chatvars, samplevars, stevevars>>

args == <<prompt_tokens, max_gen_len, temperature, top_p, echo,
          max_seq_len, max_batch_size, model, logprobs>>

bsz == Len(prompt_tokens)
Rows == 1 .. bsz

PromptVocab == {tok_a, eos_id}
Prompts == UNION {[1 .. n -> PromptVocab] : n \in 1 .. MaxPromptLen}
\* generate treats the rows alike, so the batches are enumerated up to the
\* order of their rows: one batch per multiset of prompts
RECURSIVE Rank(_)
Rank(p) == IF p = <<>> THEN 0 ELSE 1 + Head(p) + 4 * Rank(Tail(p))
Batches == {b \in UNION {[1 .. n -> Prompts] : n \in 1 .. MaxBatch} :
              \A i \in 1 .. (Len(b) - 1) : Rank(b[i]) <= Rank(b[i + 1])}
\* the threshold, in tenths
TopPs == {5}
Models == {0, 1}

\* Python's None, as the value of max_gen_len
None == 0 - 1
\* Python's None, as the value of token_logprobs and out_logprobs: written as
\* a matrix of the one entry None, which is no log-probability
NoLogprobs == <<<<None>>>>

\* the locals of generate before the call has started
GenerateLocalsInit ==
  /\ tokens = <<>>
  /\ input_text_mask = <<>>
  /\ total_len = 0
  /\ min_prompt_len = 0
  /\ prev_pos = 0
  /\ cur_pos = 0
  /\ eos_reached = <<>>
  /\ calls = <<>>
  /\ out_tokens = <<>>
  /\ token_logprobs = <<>>
  /\ out_logprobs = <<>>
  /\ raised = "none"

\* no call of sample_top_p is being followed
SampleIdle ==
  /\ probs_in = <<>>
  /\ p_in = 0
  /\ probs_sort = <<>>
  /\ probs_idx = <<>>
  /\ drawn_rank = 0
  /\ drawn_token = 0
  /\ sp_pc = "idle"

\* no chat session is being followed
SteveIdle ==
  /\ message_history = <<>>
  /\ steve_pc = "idle"
  /\ asked = 0

InitGen ==
  /\ prompt_tokens \in Batches
  /\ max_gen_len \in 1 .. MaxGenLen
  /\ temperature \in {0, 1}
  /\ top_p \in TopPs
  /\ echo \in BOOLEAN
  /\ max_seq_len \in 1 .. MaxSeqLen
  /\ max_batch_size \in {1, MaxBatch}
  /\ model \in Models
  /\ logprobs = FALSE
  /\ GenerateLocalsInit
  /\ pc = "generate"
  /\ runs = 1
  /\ prev_out = <<>>
  /\ prev_prompts = <<>>
  /\ row_alone = 0
  /\ dialogs = <<>>
  /\ d_idx = 0
  /\ unsafe_requests = <<>>
  /\ normalized = <<>>
  /\ result = <<>>
  /\ caller = "direct"
  /\ SampleIdle
  /\ SteveIdle

\* ------------------------------------------------------------- generate
max_prompt_len == MaxOf({Len(prompt_tokens[k]) : k \in Rows})

\* lines 305-310: the matrix filled with pad_id, each row's prefix the prompt
InitialTokens(tl) ==
  [k \in Rows |->
     [j \in 1 .. tl |->
        IF j <= Len(prompt_tokens[k]) THEN prompt_tokens[k][j] ELSE pad_id]]

\* lines 300-302: the longest prompt does not fit the context window
PromptTooLongMut(mpl, msl) == ~(mpl <= msl + 1)
PromptTooLong(mpl, msl) == ~(mpl <= msl)

\* F.cross_entropy(..., reduction="none", ignore_index=pad_id), negated: the
\* log-probability the output gives the target, 0 for a pad_id target.  The
\* logarithm of a weight of w tenths is kept as w - 10: 0 for probability 1,
\* negative below.
LogProb(probs, target) == IF target = pad_id THEN 0 ELSE probs[target] - 10

\* lines 322-327: the logits of column c are matched with the token of
\* column c itself
SeedLogprobs(toks) ==
  [k \in Rows |->
     [j \in 1 .. Len(toks[k]) |->
        LogProb(forward(model, Slice(toks[k], 0, j)), toks[k][j])]]

\* lines 348-354: columns prev_pos + 1 .. cur_pos get the log-probability of
\* their token under the logits of the column before
LoopLogprobs(lp, toks, pp, cp) ==
  [k \in Rows |->
     [j \in 1 .. Len(lp[k]) |->
        IF pp + 1 <= j - 1 /\ j - 1 <= cp
          THEN LogProb(forward(model, Slice(toks[k], 0, j - 1)), toks[k][j])
          ELSE lp[k][j]]]

\* lines 320-321: the one forward call over the whole matrix, made when no
\* column is left to generate
SeedCallsMut(mpl, tl) == <<>>
SeedCalls(mpl, tl) ==
  IF mpl = tl THEN <<[lo |-> 0, hi |-> tl, start |-> 0]>> ELSE <<>>

\* lines 294-330: entry of generate up to the head of the loop
GenerateEnter ==
  /\ pc = "generate"
  /\ IF ~(bsz <= max_batch_size)
       THEN /\ pc' = "raised"
            /\ raised' = "AssertionError"
            /\ UNCHANGED <<tokens, input_text_mask, total_len, min_prompt_len,
                           prev_pos, cur_pos, eos_reached, calls,
                           token_logprobs>>
     ELSE IF PromptTooLong(max_prompt_len, max_seq_len)
       THEN /\ pc' = "raised"
            /\ raised' = "PromptTooLongError"
            /\ UNCHANGED <<tokens, input_text_mask, total_len, min_prompt_len,
                           prev_pos, cur_pos, eos_reached, calls,
                           token_logprobs>>
     ELSE LET tl == Min(max_seq_len, max_gen_len + max_prompt_len)
              mpl == MinOf({Len(prompt_tokens[k]) : k \in Rows})
              toks == InitialTokens(tl)
          IN  /\ total_len' = tl
              /\ min_prompt_len' = mpl
              /\ tokens' = toks
              /\ input_text_mask' =
                   [k \in Rows |-> [j \in 1 .. tl |-> toks[k][j] # pad_id]]
              /\ prev_pos' = 0
              /\ eos_reached' = [k \in Rows |-> FALSE]
              /\ calls' = SeedCalls(mpl, tl)
              /\ token_logprobs' =
                   IF mpl = tl THEN SeedLogprobs(toks)
                   ELSE IF logprobs THEN [k \in Rows |-> [j \in 1 .. tl |-> 0]]
                   ELSE NoLogprobs
              /\ cur_pos' = mpl
              /\ pc' = IF mpl < tl THEN "loop" ELSE "post"
              /\ UNCHANGED raised
  /\ UNCHANGED <<args, out_tokens, out_logprobs, runs, prev_out, prev_prompts,
                 row_alone, chatvars, samplevars, stevevars>>

\* lines 344-346: torch.where(input_text_mask[:, cur_pos], tokens[:, cur_pos], next_token)
KeepPromptMut(mask, old, new) == new
KeepPrompt(mask, old, new) == IF mask THEN old ELSE new

\* lines 355-357
EosUpdateMut(reached, mask, tok) == reached \/ tok = eos_id
EosUpdate(reached, mask, tok) == reached \/ (~mask /\ tok = eos_id)

\* line 359: all(eos_reached)
all_eos_reachedMut(reached) == \E k \in DOMAIN reached : reached[k]
all_eos_reached(reached) == \A k \in DOMAIN reached : reached[k]

\* lines 334-340 for row k: the model sees columns [0, cur_pos) of the row
RowChoicesMut(k) ==
  NextTokenChoices(forward(model, Slice(tokens[1], 0, cur_pos)),
                   temperature, top_p)
RowChoices(k) ==
  NextTokenChoices(forward(model, Slice(tokens[k], 0, cur_pos)),
                   temperature, top_p)

\* line 334: forward(tokens[:, prev_pos:cur_pos], prev_pos)
ForwardWindowMut(pp, cp) == [lo |-> 0, hi |-> cp, start |-> 0]
ForwardWindow(pp, cp) == [lo |-> pp, hi |-> cp, start |-> pp]

\* lines 330-360: one iteration of the decoding loop
LoopIteration ==
  /\ pc = "loop"
  /\ \E sampled \in [Rows -> UNION {RowChoices(k) : k \in Rows}] :
       /\ \A k \in Rows : sampled[k] \in RowChoices(k)
       /\ LET next_token ==
                [k \in Rows |->
                   KeepPrompt(At(input_text_mask[k], cur_pos),
                              At(tokens[k], cur_pos), sampled[k])]
              reached ==
                [k \in Rows |->
                   EosUpdate(eos_reached[k], At(input_text_mask[k], cur_pos),
                             next_token[k])]
              written ==
                [k \in Rows |->
                   [tokens[k] EXCEPT ![cur_pos + 1] = next_token[k]]]
          IN  /\ calls' = Append(calls, ForwardWindow(prev_pos, cur_pos))
              /\ tokens' = written
              /\ token_logprobs' =
                   IF logprobs /\ token_logprobs # NoLogprobs
                     THEN LoopLogprobs(token_logprobs, written, prev_pos, cur_pos)
                     ELSE token_logprobs
              /\ eos_reached' = reached
              /\ prev_pos' = cur_pos
              /\ IF all_eos_reached(reached) \/ cur_pos + 1 >= total_len
                   THEN pc' = "post" /\ cur_pos' = cur_pos
                   ELSE pc' = "loop" /\ cur_pos' = cur_pos + 1
  /\ UNCHANGED <<args, input_text_mask, total_len, min_prompt_len,
                 out_tokens, out_logprobs, raised, runs, prev_out, prev_prompts,
                 row_alone, chatvars, samplevars, stevevars>>

\* lines 374-376: cut to the first eos token, if any
CutAtEosMut(toks) ==
  IF Contains(toks, eos_id) THEN Slice(toks, 0, IndexOf(toks, eos_id) + 1) ELSE toks
CutAtEos(toks) ==
  IF Contains(toks, eos_id) THEN Slice(toks, 0, IndexOf(toks, eos_id)) ELSE toks

\* lines 366-379: the tokens returned for row i
OutputRowMut(row, prompt, gen_len, ech) ==
  LET start == IF ech THEN 0 ELSE Len(prompt)
  IN  CutAtEos(Slice(row, start, Len(row)))
OutputRow(row, prompt, gen_len, ech) ==
  LET start == IF ech THEN 0 ELSE Len(prompt)
  IN  CutAtEos(Slice(row, start, Len(prompt) + gen_len))

\* lines 368-378: the log-probabilities returned for row i, cut where the
\* tokens are cut
OutputLogprobsMut(lp_row, row, prompt, gen_len, ech) ==
  LET start == IF ech THEN 0 ELSE Len(prompt)
  IN  Slice(lp_row, start, Len(prompt) + gen_len)
OutputLogprobs(lp_row, row, prompt, gen_len, ech) ==
  LET start == IF ech THEN 0 ELSE Len(prompt)
      toks == Slice(row, start, Len(prompt) + gen_len)
      probs == Slice(lp_row, start, Len(prompt) + gen_len)
  IN  IF Contains(toks, eos_id) THEN Slice(probs, 0, IndexOf(toks, eos_id))
      ELSE probs

\* lines 362-402
PostProcess ==
  /\ pc = "post"
  /\ out_tokens' = [k \in Rows |->
                      OutputRow(tokens[k], prompt_tokens[k], max_gen_len, echo)]
  /\ out_logprobs' =
       IF logprobs
         THEN [k \in Rows |->
                 OutputLogprobs(token_logprobs[k], tokens[k], prompt_tokens[k],
                                max_gen_len, echo)]
         ELSE NoLogprobs
  /\ pc' = "done"
  /\ UNCHANGED <<args, tokens, token_logprobs, input_text_mask, total_len, min_prompt_len,
                 prev_pos, cur_pos, eos_reached, calls, raised, runs, prev_out, prev_prompts,
                 row_alone,
                 chatvars, samplevars, stevevars>>

\* the caller makes a second call with the same batch, configuration and
\* model; the state of the finished call is discarded
Rerun ==
  /\ pc = "done"
  /\ caller = "direct"
  /\ runs = 1
  /\ runs' = runs + 1
  /\ prev_out' = out_tokens
  /\ prev_prompts' = prompt_tokens
  /\ row_alone' = 0
  /\ pc' = "generate"
  /\ tokens' = <<>>
  /\ input_text_mask' = <<>>
  /\ total_len' = 0
  /\ min_prompt_len' = 0
  /\ prev_pos' = 0
  /\ cur_pos' = 0
  /\ eos_reached' = <<>>
  /\ calls' = <<>>
  /\ out_tokens' = <<>>
  /\ token_logprobs' = <<>>
  /\ out_logprobs' = <<>>
  /\ UNCHANGED <<args, raised, chatvars, samplevars, stevevars>>

\* the caller makes a second call with one prompt of the batch alone, same
\* configuration and model
RerunAlone ==
  /\ pc = "done"
  /\ caller = "direct"
  /\ runs = 1
  /\ \E i \in Rows :
       /\ row_alone' = i
       /\ prompt_tokens' = <<prompt_tokens[i]>>
  /\ runs' = runs + 1
  /\ prev_out' = out_tokens
  /\ prev_prompts' = prompt_tokens
  /\ pc' = "generate"
  /\ tokens' = <<>>
  /\ input_text_mask' = <<>>
  /\ total_len' = 0
  /\ min_prompt_len' = 0
  /\ prev_pos' = 0
  /\ cur_pos' = 0
  /\ eos_reached' = <<>>
  /\ calls' = <<>>
  /\ out_tokens' = <<>>
  /\ token_logprobs' = <<>>
  /\ out_logprobs' = <<>>
  /\ UNCHANGED <<max_gen_len, temperature, top_p, echo, max_seq_len,
                 max_batch_size, model, logprobs, raised, chatvars,
                 samplevars, stevevars>>

NextGen == GenerateEnter \/ LoopIteration \/ PostProcess

SpecGen == InitGen /\ [][NextGen]_vars

\* two successive greedy calls
InitGreedy == InitGen /\ temperature = 0

NextGreedy == GenerateEnter \/ LoopIteration \/ PostProcess \/ Rerun

SpecGreedy == InitGreedy /\ [][NextGreedy]_vars

\* greedy calls with and without log-probabilities requested
InitLogprobs ==
  /\ prompt_tokens \in Batches
  /\ max_gen_len \in 1 .. MaxGenLen
  /\ temperature = 0
  /\ top_p \in TopPs
  /\ echo \in BOOLEAN
  /\ max_seq_len \in 1 .. MaxSeqLen
  /\ max_batch_size = MaxBatch
  /\ model \in Models
  /\ logprobs \in BOOLEAN
  /\ GenerateLocalsInit
  /\ pc = "generate"
  /\ runs = 1
  /\ prev_out = <<>>
  /\ prev_prompts = <<>>
  /\ row_alone = 0
  /\ dialogs = <<>>
  /\ d_idx = 0
  /\ unsafe_requests = <<>>
  /\ normalized = <<>>
  /\ result = <<>>
  /\ caller = "direct"
  /\ SampleIdle
  /\ SteveIdle

SpecLogprobs == InitLogprobs /\ [][NextGen]_vars

\* a greedy call on a batch, then a greedy call on one of its prompts alone
NextAlone == GenerateEnter \/ LoopIteration \/ PostProcess \/ RerunAlone

SpecAlone == InitGreedy /\ [][NextAlone]_vars

\* ------------------------------------------------------ chat_completion
\* lines 66-70
B_INST == <<"[INST]">>
E_INST == <<"[/INST]">>
B_SYS == <<"<<SYS>>", "\n">>
E_SYS == <<"\n", "<</SYS>>", "\n", "\n">>
SPECIAL_TAGSMut == {B_INST, <<"<<SYS>>">>, <<"<</SYS>>">>}
SPECIAL_TAGS == {B_INST, E_INST, <<"<<SYS>>">>, <<"<</SYS>>">>}
UNSAFE_ERROR == <<"E">>

\* a message that carries no dialog_id
NoId == 0

Message(r, c) == [dialog_id |-> NoId, role |-> r, content |-> c]

\* lines 546-552: any(tag in msg["content"] for tag in SPECIAL_TAGS for msg in dialog)
UnsafeMut(dialog) ==
  \E j \in 1 .. Len(dialog) : \E tag \in SPECIAL_TAGS :
    j = Len(dialog) /\ IsSubstring(tag, dialog[j].content)
Unsafe(dialog) ==
  \E j \in 1 .. Len(dialog) : \E tag \in SPECIAL_TAGS :
    IsSubstring(tag, dialog[j].content)

\* lines 560-567: the content of the merged message
FoldedContentMut(sys, usr) == Concat(<<B_SYS, sys, E_SYS, Strip(usr)>>)
FoldedContent(sys, usr) == Concat(<<B_SYS, sys, E_SYS, usr>>)

\* lines 553-573: the name dialog is rebound to the one-element list before
\* the loop at line 571 slices it, so the slice dialog[2::] is taken of the
\* new list
Fold(dialog, id) ==
  LET merged == <<[dialog_id |-> id,
                   role |-> dialog[2].role,
                   content |-> FoldedContent(dialog[1].content, dialog[2].content)]>>
      rest == Slice(merged, 2, Len(merged))
  IN  merged \o [j \in 1 .. Len(rest) |-> [rest[j] EXCEPT !.dialog_id = id]]

\* dialog[::2] and dialog[1::2]
Evens(dialog) == {j \in 1 .. Len(dialog) : j % 2 = 1}
Odds(dialog) == {j \in 1 .. Len(dialog) : j % 2 = 0}

\* lines 575-577: not all(...) and all(...)
OrderRejectedMut(dialog) == FALSE
OrderRejected(dialog) ==
  (~(\A j \in Evens(dialog) : dialog[j].role = "user"))
    /\ (\A j \in Odds(dialog) : dialog[j].role = "assistant")

\* lines 582-583
WithDialogId(dialog, id) ==
  [j \in 1 .. Len(dialog) |-> [dialog[j] EXCEPT !.dialog_id = id]]

\* lines 597-601: one (prompt, answer) pair
EncodePair(prompt, answer) ==
  encode(Concat(<<B_INST, <<" ">>, Strip(prompt.content), <<" ">>, E_INST,
                  <<" ">>, Strip(answer.content), <<" ">>>>), TRUE, TRUE)

\* lines 614-618: the last message
EncodeLast(msg) ==
  encode(Concat(<<B_INST, <<" ">>, Strip(msg.content), <<" ">>, E_INST>>),
         TRUE, FALSE)

\* lines 595-619: zip(dialog[::2], dialog[1::2]) pairs message 2j-1 with 2j
DialogTokens(dialog) ==
  Concat([j \in 1 .. (Len(dialog) \div 2) |->
            EncodePair(dialog[2 * j - 1], dialog[2 * j])])
    \o EncodeLast(dialog[Len(dialog)])

\* lines 526-543
ChatEnter ==
  /\ pc = "chat_completion"
  /\ max_gen_len' = IF max_gen_len = None THEN max_seq_len - 1 ELSE max_gen_len
  /\ prompt_tokens' = <<>>
  /\ unsafe_requests' = <<>>
  /\ d_idx' = 1
  /\ pc' = "dialogs"
  /\ UNCHANGED <<temperature, top_p, echo, max_seq_len, max_batch_size, model,
                 logprobs, token_logprobs, out_logprobs,
                 tokens, input_text_mask, total_len, min_prompt_len, prev_pos,
                 cur_pos, eos_reached, calls, out_tokens, raised, runs, prev_out, prev_prompts,
                 row_alone,
                 dialogs, normalized, result, caller,
                 samplevars, stevevars>>

\* the effect of a raise in the body of the dialog loop
ChatRaise(err, dlgs, norm) ==
  /\ pc' = "raised"
  /\ raised' = err
  /\ dialogs' = dlgs
  /\ normalized' = norm
  /\ UNCHANGED <<prompt_tokens, d_idx>>

\* lines 554 and 582-583: the fold binds the local name to a new list of a
\* new message and leaves the caller's list alone; the messages of a list
\* that was not rebound are the caller's, and get the dialog_id
CallerDialogsMut(dlgs, i, folded, tagged) == [dlgs EXCEPT ![i] = tagged]
CallerDialogs(dlgs, i, folded, tagged) ==
  IF folded THEN dlgs ELSE [dlgs EXCEPT ![i] = tagged]

\* lines 544-619: one iteration of the loop over the dialogs
ChatDialog ==
  /\ pc = "dialogs"
  /\ LET orig == dialogs[d_idx]
         id == d_idx
     IN  /\ unsafe_requests' = Append(unsafe_requests, Unsafe(orig))
         /\ IF orig = <<>>
              THEN ChatRaise("IndexError", dialogs, normalized)
            ELSE IF orig[1].role = "system" /\ Len(orig) < 2
              THEN ChatRaise("IndexError", dialogs, normalized)
            ELSE
              LET folded == orig[1].role = "system"
                  dialog == IF folded THEN Fold(orig, id) ELSE orig
                  tagged == WithDialogId(dialog, id)
                  dlgs == CallerDialogs(dialogs, d_idx, folded, tagged)
              IN  IF OrderRejected(dialog)
                    THEN ChatRaise("DialogOrderError", dialogs,
                                   Append(normalized, dialog))
                  ELSE IF tagged[Len(tagged)].role # "user"
                    THEN ChatRaise("AssertionError", dlgs,
                                   Append(normalized, tagged))
                  ELSE /\ prompt_tokens' = Append(prompt_tokens, DialogTokens(tagged))
                       /\ normalized' = Append(normalized, tagged)
                       /\ dialogs' = dlgs
                       /\ IF d_idx = Len(dialogs)
                            THEN pc' = "generate" /\ d_idx' = d_idx
                            ELSE pc' = "dialogs" /\ d_idx' = d_idx + 1
                       /\ UNCHANGED raised
  /\ UNCHANGED <<max_gen_len, temperature, top_p, echo, max_seq_len,
                 max_batch_size, model, logprobs, token_logprobs,
                 out_logprobs, tokens, input_text_mask, total_len,
                 min_prompt_len, prev_pos, cur_pos, eos_reached, calls,
                 out_tokens, runs, prev_out, prev_prompts,
                 row_alone, result, caller,
                 samplevars, stevevars>>

\* Tokenizer.decode, line 89: t[0] of an empty list raises IndexError
DecodeRaises(t) == Len(t) = 0

\* lines 634-636 and 651-653: decode(t) if not unsafe else UNSAFE_ERROR
ResultContentMut(unsafe, t) == Decode(t)
ResultContent(unsafe, t) == IF ~unsafe THEN Decode(t) ELSE UNSAFE_ERROR

\* lines 631-659: one prediction record; with log-probabilities it carries
\* the text of every token, decode([x]) for x in t, and the log-probabilities
\* of the sequence.  The execution_id, an argument of the call, is left out.
ChatRecord(unsafe, t, lp, with_logprobs) ==
  IF with_logprobs
    THEN [generation |-> [role |-> "assistant",
                          content |-> ResultContent(unsafe, t)],
          tokens |-> [j \in 1 .. Len(t) |-> Decode(<<t[j]>>)],
          logprobs |-> lp]
    ELSE [generation |-> [role |-> "assistant",
                          content |-> ResultContent(unsafe, t)]]

\* lines 630-669
ChatResult ==
  /\ pc = "done"
  /\ caller = "chat"
  /\ IF \E k \in Rows : ~unsafe_requests[k] /\ DecodeRaises(out_tokens[k])
       THEN /\ pc' = "raised"
            /\ raised' = "IndexError"
            /\ UNCHANGED result
       ELSE /\ result' =
                 [k \in Rows |->
                    ChatRecord(unsafe_requests[k], out_tokens[k],
                               IF logprobs THEN out_logprobs[k] ELSE <<>>,
                               logprobs)]
            /\ pc' = "returned"
            /\ UNCHANGED raised
  /\ UNCHANGED <<args, tokens, token_logprobs, out_logprobs, input_text_mask,
                 total_len, min_prompt_len,
                 prev_pos, cur_pos, eos_reached, calls, out_tokens, runs,
                 prev_out, prev_prompts,
                 row_alone, dialogs, d_idx, unsafe_requests, normalized, caller,
                 samplevars, stevevars>>

\* ---- the dialogs of the chat specification
Roles == {"system", "user", "assistant"}
BaseContents == {<<" ", "a">>, <<"a", "[/INST]">>}

\* every role sequence, with one plain content
RoleDialogs ==
  UNION {{[j \in 1 .. n |-> Message(rs[j], <<"a">>)] : rs \in [1 .. n -> Roles]}
           : n \in 0 .. MaxDialogLen}

\* a system and a user message, and the single user message that spells out
\* the merged content
ContentDialogs ==
  {<<Message("user", c)>> : c \in BaseContents}
    \cup {<<Message("system", c[1]), Message("user", c[2])>>
            : c \in BaseContents \X BaseContents}
    \cup {<<Message("user", Concat(<<B_SYS, c[1], E_SYS, c[2]>>))>>
            : c \in BaseContents \X BaseContents}

Dialogs == RoleDialogs \cup ContentDialogs
DialogBatches == {<<d>> : d \in Dialogs} \cup (Dialogs \X Dialogs)

\* (max_seq_len, max_gen_len)
ChatConfigs == {<<7, None>>, <<14, 1>>}

InitChat ==
  /\ dialogs \in DialogBatches
  /\ \E c \in ChatConfigs : max_seq_len = c[1] /\ max_gen_len = c[2]
  /\ temperature \in {0, 1}
  /\ top_p \in TopPs
  /\ echo = FALSE
  /\ max_batch_size = 2
  /\ model \in Models
  /\ logprobs = FALSE
  /\ prompt_tokens = <<>>
  /\ GenerateLocalsInit
  /\ pc = "chat_completion"
  /\ runs = 1
  /\ prev_out = <<>>
  /\ prev_prompts = <<>>
  /\ row_alone = 0
  /\ d_idx = 0
  /\ unsafe_requests = <<>>
  /\ normalized = <<>>
  /\ result = <<>>
  /\ caller = "chat"
  /\ SampleIdle
  /\ SteveIdle

NextChat ==
  ChatEnter \/ ChatDialog \/ GenerateEnter \/ LoopIteration \/ PostProcess
    \/ ChatResult

SpecChat == InitChat /\ [][NextChat]_vars

\* chat_completion with and without log-probabilities requested, on the
\* dialogs of one or two messages
LogprobsDialogBatches ==
  {<<d>> : d \in ContentDialogs} \cup (ContentDialogs \X ContentDialogs)

InitChatLogprobs ==
  /\ dialogs \in LogprobsDialogBatches
  /\ \E c \in ChatConfigs : max_seq_len = c[1] /\ max_gen_len = c[2]
  /\ temperature \in {0, 1}
  /\ top_p \in TopPs
  /\ echo = FALSE
  /\ max_batch_size = 2
  /\ model \in Models
  /\ logprobs \in BOOLEAN
  /\ prompt_tokens = <<>>
  /\ GenerateLocalsInit
  /\ pc = "chat_completion"
  /\ runs = 1
  /\ prev_out = <<>>
  /\ prev_prompts = <<>>
  /\ row_alone = 0
  /\ d_idx = 0
  /\ unsafe_requests = <<>>
  /\ normalized = <<>>
  /\ result = <<>>
  /\ caller = "chat"
  /\ SampleIdle
  /\ SteveIdle

SpecChatLogprobs == InitChatLogprobs /\ [][NextChat]_vars

\* ---------------------------------------------------------------- Steve
\* steve.py.  One session of question_loop: the model is built once, with
\* greedy decoding and the context window of the configuration.

\* line 52: the session_id, which ask_for_input puts in the dialog_id field
SessionId == 2

\* what the user types; questionary returns None for a cancelled input,
\* which is the other branch of ask_for_input
UserInputs == {<<"a">>, <<" ", "a", " ">>, <<"a", "[/INST]">>, <<>>}

\* config["max_seq_len"]
SteveSeqLens == {18, 26}

\* lines 106-110
UserMessageMut(user_input) ==
  [dialog_id |-> SessionId, role |-> "assistant", content |-> Strip(user_input)]
UserMessage(user_input) ==
  [dialog_id |-> SessionId, role |-> "user", content |-> Strip(user_input)]

InitSteve ==
  /\ message_history = <<>>
  /\ steve_pc = "ask"
  /\ asked = 0
  /\ max_seq_len \in SteveSeqLens
  /\ max_batch_size = 1
  /\ model \in Models
  /\ temperature = 0
  /\ top_p \in TopPs
  /\ echo = FALSE
  /\ logprobs = FALSE
  /\ max_gen_len = None
  /\ prompt_tokens = <<>>
  /\ GenerateLocalsInit
  /\ pc = "idle"
  /\ runs = 1
  /\ prev_out = <<>>
  /\ prev_prompts = <<>>
  /\ row_alone = 0
  /\ dialogs = <<>>
  /\ d_idx = 0
  /\ unsafe_requests = <<>>
  /\ normalized = <<>>
  /\ result = <<>>
  /\ caller = "chat"
  /\ SampleIdle

\* lines 94-112 and 174: ask_for_input; a None input is skipped and the loop
\* asks again
AskForInput ==
  /\ steve_pc = "ask"
  /\ asked < MaxInputs
  /\ asked' = asked + 1
  /\ \/ UNCHANGED <<message_history, steve_pc>>
     \/ \E user_input \in UserInputs :
          /\ message_history' = Append(message_history, UserMessage(user_input))
          /\ steve_pc' = "respond"
  /\ UNCHANGED <<genvars, chatvars, samplevars>>

\* lines 114-122: get_response calls chat_completion on [self.message_history]
\* with the default max_gen_len
GetResponse ==
  /\ steve_pc = "respond"
  /\ steve_pc' = "calling"
  /\ dialogs' = <<message_history>>
  /\ max_gen_len' = None
  /\ pc' = "chat_completion"
  /\ prompt_tokens' = <<>>
  /\ tokens' = <<>>
  /\ input_text_mask' = <<>>
  /\ total_len' = 0
  /\ min_prompt_len' = 0
  /\ prev_pos' = 0
  /\ cur_pos' = 0
  /\ eos_reached' = <<>>
  /\ calls' = <<>>
  /\ out_tokens' = <<>>
  /\ token_logprobs' = <<>>
  /\ out_logprobs' = <<>>
  /\ d_idx' = 0
  /\ unsafe_requests' = <<>>
  /\ normalized' = <<>>
  /\ result' = <<>>
  /\ UNCHANGED <<temperature, top_p, echo, max_seq_len, max_batch_size, model,
                 logprobs, raised, runs, prev_out, prev_prompts, row_alone,
                 caller, message_history, asked, samplevars>>

\* lines 139-158: the generation of the first record is appended to the
\* history, whose messages chat_completion has written the dialog_id into
ResponseReturned ==
  /\ steve_pc = "calling"
  /\ pc = "returned"
  /\ message_history' =
       Append(dialogs[1], Message("assistant", result[1].generation.content))
  /\ steve_pc' = "ask"
  /\ pc' = "idle"
  /\ UNCHANGED <<args, tokens, token_logprobs, out_logprobs, input_text_mask,
                 total_len, min_prompt_len, prev_pos, cur_pos, eos_reached,
                 calls, out_tokens, raised, runs, prev_out, prev_prompts,
                 row_alone, chatvars, asked, samplevars>>

\* lines 123-131 and 177-188: DialogOrderError makes get_response return None
\* and PromptTooLongError is caught by the loop, which both break; any other
\* error leaves question_loop as an exception
SessionEnds ==
  /\ steve_pc = "calling"
  /\ pc = "raised"
  /\ message_history' = dialogs[1]
  /\ steve_pc' = IF raised \in {"DialogOrderError", "PromptTooLongError"}
                   THEN "ended" ELSE "crashed"
  /\ pc' = "idle"
  /\ UNCHANGED <<args, tokens, token_logprobs, out_logprobs, input_text_mask,
                 total_len, min_prompt_len, prev_pos, cur_pos, eos_reached,
                 calls, out_tokens, raised, runs, prev_out, prev_prompts,
                 row_alone, chatvars, asked, samplevars>>

NextSteve ==
  AskForInput \/ GetResponse \/ ChatEnter \/ ChatDialog \/ GenerateEnter
    \/ LoopIteration \/ PostProcess \/ ChatResult \/ ResponseReturned
    \/ SessionEnds

SpecSteve == InitSteve /\ [][NextSteve]_vars

\* --------------------------------------------------------- sample_top_p
\* one call of sample_top_p on a single distribution.  Probabilities and the
\* threshold are counted in parts of 1 / ProbGrid.
Candidates == 0 .. (NumCandidates - 1)
Ranks == 1 .. NumCandidates

Distributions ==
  {d \in [Candidates -> 0 .. ProbGrid] :
     SumSeq([r \in Ranks |-> d[r - 1]]) = ProbGrid}

\* the thresholds p >= 0, one of them above 1
Thresholds == 0 .. (ProbGrid + 1)

\* line 689: torch.sort(probs, descending=True) returns the indices in an
\* order of non-increasing probability; equal entries come in any order
SortOrders(probs) ==
  {idx \in [Ranks -> Candidates] :
     /\ \A r1 \in Ranks : \A r2 \in Ranks : r1 # r2 => idx[r1] # idx[r2]
     /\ \A r \in 1 .. (NumCandidates - 1) : probs[idx[r]] >= probs[idx[r + 1]]}

\* line 690: torch.cumsum
cumsum(sorted) == [r \in Ranks |-> SumSeq(Slice(sorted, 0, r))]

\* line 691: mask = probs_sum - probs_sort > p
MaskedMut(sum, sort, p) == sum > p
Masked(sum, sort, p) == sum - sort > p

\* torch.multinomial draws only entries of non-zero weight
DrawableMut(w) == w >= 0
Drawable(w) == w > 0

InitSample ==
  /\ probs_in \in Distributions
  /\ p_in \in Thresholds
  /\ probs_sort = <<>>
  /\ probs_idx = <<>>
  /\ drawn_rank = 0
  /\ drawn_token = 0
  /\ sp_pc = "sort"
  /\ prompt_tokens = <<>>
  /\ max_gen_len = 0
  /\ temperature = 1
  /\ top_p = 0
  /\ echo = FALSE
  /\ max_seq_len = 0
  /\ max_batch_size = 0
  /\ model = 0
  /\ logprobs = FALSE
  /\ GenerateLocalsInit
  /\ pc = "idle"
  /\ runs = 1
  /\ prev_out = <<>>
  /\ prev_prompts = <<>>
  /\ row_alone = 0
  /\ dialogs = <<>>
  /\ d_idx = 0
  /\ unsafe_requests = <<>>
  /\ normalized = <<>>
  /\ result = <<>>
  /\ caller = "sample"
  /\ SteveIdle

\* lines 689-693: sort, cumulate, zero the masked entries.  The division of
\* line 693 scales the entries by one positive factor and is left out.
SampleTruncate ==
  /\ sp_pc = "sort"
  /\ \E idx \in SortOrders(probs_in) :
       LET sorted == [r \in Ranks |-> probs_in[idx[r]]]
           probs_sum == cumsum(sorted)
       IN  /\ probs_idx' = idx
           /\ probs_sort' =
                [r \in Ranks |->
                   IF Masked(probs_sum[r], sorted[r], p_in) THEN 0 ELSE sorted[r]]
  /\ sp_pc' = "draw"
  /\ UNCHANGED <<probs_in, p_in, drawn_rank, drawn_token, genvars, chatvars,
                 stevevars>>

\* lines 694-695: torch.multinomial, then torch.gather on probs_idx
SampleDraw ==
  /\ sp_pc = "draw"
  /\ \E r \in Ranks :
       /\ Drawable(probs_sort[r])
       /\ drawn_rank' = r
       /\ drawn_token' = probs_idx[r]
  /\ sp_pc' = "done"
  /\ UNCHANGED <<probs_in, p_in, probs_sort, probs_idx, genvars, chatvars,
                 stevevars>>

NextSample == SampleTruncate \/ SampleDraw

SpecSample == InitSample /\ [][NextSample]_vars

\* ------------------------------------------------------------ properties
Started == pc \in {"loop", "post", "done"}

\* the last column the loop has written, min_prompt_len - 1 before any iteration
Written == IF pc = "loop" THEN cur_pos - 1
           ELSE IF min_prompt_len < total_len THEN prev_pos
           ELSE min_prompt_len - 1

\* C1: at the head of every iteration, after the loop and at return, every
\* column below a row's prompt length still holds that prompt's token.
C1_PromptNeverOverwritten ==
  Started =>
    \A k \in Rows : \A j \in 0 .. (Len(prompt_tokens[k]) - 1) :
      At(tokens[k], j) = At(prompt_tokens[k], j)

\* a greedy run has passed a column that is prompt for one row and generated
\* for the other, where the model's arg-max differs from the prompt token
C1_Witness ==
  /\ pc = "post" /\ bsz = 2 /\ temperature = 0
  /\ \E k \in Rows :
       /\ Len(prompt_tokens[k]) > min_prompt_len
       /\ Written >= min_prompt_len
       /\ argmax(forward(model, Slice(tokens[k], 0, min_prompt_len)))
            # At(prompt_tokens[k], min_prompt_len)

\* C2 (as the specification states it): with echo the returned sequence starts with the whole prompt.
C2_EchoKeepsPrompt ==
  (pc = "done" /\ echo) =>
    \A k \in Rows :
      Slice(out_tokens[k], 0, Len(prompt_tokens[k])) = prompt_tokens[k]

GeneratedLen(k) ==
  IF echo THEN Len(out_tokens[k]) - Len(prompt_tokens[k]) ELSE Len(out_tokens[k])

\* C3: a returned sequence has at most max_gen_len tokens beyond its prompt,
\* and prompt plus generated tokens fit in max_seq_len.
C3_LengthBound ==
  pc = "done" =>
    \A k \in Rows :
      /\ GeneratedLen(k) <= max_gen_len
      /\ Len(prompt_tokens[k]) + GeneratedLen(k) <= max_seq_len
      /\ Len(out_tokens[k]) <= Len(prompt_tokens[k]) + max_gen_len

\* prompts of different lengths; the short row returns exactly max_gen_len
\* tokens although the matrix row holds more generated columns
C3_Witness ==
  /\ pc = "done" /\ bsz = 2
  /\ \E k \in Rows :
       /\ Len(prompt_tokens[k]) = min_prompt_len
       /\ min_prompt_len < max_prompt_len
       /\ GeneratedLen(k) = max_gen_len
       /\ total_len > Len(prompt_tokens[k]) + max_gen_len
       /\ ~Contains(Slice(tokens[k], Len(prompt_tokens[k]), total_len), eos_id)

\* C4: with temperature 0 every written token is the arg-max of the model's
\* output for the row, and a second call on the same batch returns the
\* tokens of the first.
C4_GreedyDeterminism ==
  temperature = 0 =>
    /\ Started =>
         \A k \in Rows : \A j \in Len(prompt_tokens[k]) .. Written :
           At(tokens[k], j) = argmax(forward(model, Slice(tokens[k], 0, j)))
    /\ (pc = "done" /\ runs = 2) => out_tokens = prev_out

\* a second greedy call has returned generated tokens where sampling would
\* have had more than one candidate
C4_Witness ==
  /\ temperature = 0 /\ pc = "done" /\ runs = 2
  /\ \E k \in Rows :
       /\ ~echo /\ Len(out_tokens[k]) >= 2
       /\ Cardinality(sample_top_p(forward(model, prompt_tokens[k]), top_p)) > 1

\* C5: a batch within the batch limit whose longest prompt exceeds max_seq_len
\* ends in PromptTooLongError with no result and no forward call.
C5_PromptTooLong ==
  (bsz <= max_batch_size /\ max_prompt_len > max_seq_len /\ pc # "generate") =>
    /\ pc = "raised" /\ raised = "PromptTooLongError"
    /\ out_tokens = <<>> /\ calls = <<>> /\ tokens = <<>>

\* a two-row batch was rejected although one of its prompts fits
C5_Witness ==
  /\ pc = "raised" /\ raised = "PromptTooLongError"
  /\ bsz = 2 /\ calls = <<>>
  /\ \E k \in Rows : Len(prompt_tokens[k]) <= max_seq_len

\* row k holds an end-of-sequence id in a written column past its own prompt
EmittedEos(k) ==
  \E j \in Len(prompt_tokens[k]) .. Written : At(tokens[k], j) = eos_id

\* C6: the loop is at the head of a further iteration only while some row has
\* not emitted end-of-sequence past its prompt; it has ended before the last
\* position only when every row has; and one forward call was made per
\* iteration, none for a later position.
C6_EarlyStop ==
  /\ pc = "loop" =>
       /\ \E k \in Rows : ~EmittedEos(k)
       /\ Len(calls) = cur_pos - min_prompt_len
  /\ (pc \in {"post", "done"} /\ min_prompt_len < total_len) =>
       /\ prev_pos < total_len - 1 => \A k \in Rows : EmittedEos(k)
       /\ Len(calls) = prev_pos - min_prompt_len + 1
       /\ \A c \in 1 .. Len(calls) : calls[c].hi <= prev_pos

\* the loop stopped early in a batch whose rows emitted end-of-sequence at
\* different positions, so it went on for a row that had already finished
C6_Witness ==
  /\ pc = "post" /\ bsz = 2 /\ prev_pos < total_len - 1
  /\ \A k \in Rows : EmittedEos(k)
  /\ \E k \in Rows : \E j \in Len(prompt_tokens[k]) .. (prev_pos - 1) :
       At(tokens[k], j) = eos_id

\* some even position is not a user turn or some odd one not an assistant turn
BadOrder(dialog) ==
  \/ \E j \in Evens(dialog) : dialog[j].role # "user"
  \/ \E j \in Odds(dialog) : dialog[j].role # "assistant"

\* C7 (as the specification states it): a dialog whose folded form breaks the user/assistant
\* alternation raises DialogOrderError and its prompt is never built.
C7_BadOrderRejected ==
  \A i \in 1 .. Len(normalized) :
    BadOrder(normalized[i]) =>
      (pc = "raised" /\ raised = "DialogOrderError" /\ Len(prompt_tokens) < i)

\* C8 (as the specification states it): a dialog whose last message is an assistant turn raises
\* DialogOrderError.
C8_AssistantLastRejected ==
  \A i \in 1 .. Len(normalized) :
    (dialogs[i] # <<>> /\ dialogs[i][Len(dialogs[i])].role = "assistant") =>
      (pc = "raised" /\ raised = "DialogOrderError")

\* C9 (as the specification states it): folding a leading system message leaves n - 1 messages,
\* the merged one followed by the third and later messages in order.
C9_FoldKeepsRest ==
  \A i \in 1 .. Len(normalized) :
    LET d == dialogs[i]
        nd == normalized[i]
    IN  (Len(d) >= 2 /\ d[1].role = "system") =>
          /\ Len(nd) = Len(d) - 1
          /\ nd[1].content = Concat(<<B_SYS, d[1].content, E_SYS, d[2].content>>)
          /\ \A j \in 3 .. Len(d) :
               nd[j - 1].role = d[j].role /\ nd[j - 1].content = d[j].content

\* dialog j is the single user message spelling out the fold of dialog i
SpelledOut(i, j) ==
  /\ Len(dialogs[i]) = 2 /\ Len(dialogs[j]) = 1
  /\ dialogs[i][1].role = "system" /\ dialogs[i][2].role = "user"
  /\ dialogs[j][1].role = "user"
  /\ dialogs[j][1].content =
       Concat(<<B_SYS, dialogs[i][1].content, E_SYS, dialogs[i][2].content>>)

\* C10: the prompt built for [system S, user U] equals the prompt built for
\* the single user message whose content is the system-wrapped S followed by U.
C10_FoldEquivalence ==
  caller = "chat" =>
    \A i \in 1 .. Len(prompt_tokens) : \A j \in 1 .. Len(prompt_tokens) :
      SpelledOut(i, j) => prompt_tokens[i] = prompt_tokens[j]

\* both prompts are built, for a user content that strip would change
C10_Witness ==
  /\ caller = "chat" /\ Len(prompt_tokens) = 2
  /\ \E i \in 1 .. 2 : \E j \in 1 .. 2 :
       /\ SpelledOut(i, j)
       /\ IsSpace(Head(dialogs[i][2].content))
       /\ Len(prompt_tokens[i]) > 6

\* some message of the dialog holds one of the four reserved tags
HasReservedTag(dialog) ==
  \E j \in 1 .. Len(dialog) :
    \/ IsSubstring(<<"[INST]">>, dialog[j].content)
    \/ IsSubstring(<<"[/INST]">>, dialog[j].content)
    \/ IsSubstring(<<"<<SYS>>">>, dialog[j].content)
    \/ IsSubstring(<<"<</SYS>>">>, dialog[j].content)

\* generate has run to its end for the batch of the chat call
Generated == caller = "chat" /\ Len(out_tokens) = Len(dialogs) /\ dialogs # <<>>

\* C11: for a dialog with a reserved tag in some message, once generate has
\* run the model has been called, and the content returned for the dialog is
\* UNSAFE_ERROR whatever tokens were generated for it.
C11_UnsafeSubstituted ==
  \A i \in 1 .. Len(dialogs) :
    HasReservedTag(dialogs[i]) =>
      /\ Generated => calls # <<>>
      /\ pc = "returned" => result[i].generation.content = UNSAFE_ERROR

\* a flagged dialog for which the model generated a token other than
\* end-of-sequence has been answered
C11_Witness ==
  /\ pc = "returned"
  /\ \E i \in 1 .. Len(dialogs) :
       /\ HasReservedTag(dialogs[i])
       /\ Len(out_tokens[i]) > 0
       /\ Len(calls) > 0
       /\ result[i].generation.content = UNSAFE_ERROR

\* C12: the flag collected for dialog i tells whether some message of the
\* dialog as supplied holds a reserved tag, and the content returned for
\* dialog i is UNSAFE_ERROR when it does and the decoded tokens of sequence i
\* when it does not, whatever the other dialogs of the batch hold; the tags
\* of a folded system message are not in the supplied messages.
C12_FlagPerDialog ==
  /\ \A i \in 1 .. Len(unsafe_requests) :
       unsafe_requests[i] = HasReservedTag(dialogs[i])
  /\ pc = "returned" =>
       \A i \in 1 .. Len(dialogs) :
         result[i].generation.content =
           IF HasReservedTag(dialogs[i]) THEN UNSAFE_ERROR
           ELSE Decode(out_tokens[i])

\* a batch of a flagged dialog and a folded system dialog without tags: the
\* folded prompt holds the system tags, its result is the decoded generation
C12_Witness ==
  /\ pc = "returned" /\ Len(dialogs) = 2
  /\ \E i \in 1 .. 2 : \E j \in 1 .. 2 :
       /\ HasReservedTag(dialogs[i])
       /\ result[i].generation.content = UNSAFE_ERROR
       /\ dialogs[j][1].role = "system"
       /\ ~HasReservedTag(dialogs[j])
       /\ HasReservedTag(normalized[j])
       /\ Len(out_tokens[j]) > 0
       /\ result[j].generation.content = Decode(out_tokens[j])
       /\ result[j].generation.content # UNSAFE_ERROR

\* the roles the validation sees: a leading system message and the message
\* after it count as that one message
SeenRoles(d) ==
  IF Len(d) >= 2 /\ d[1].role = "system" THEN <<d[2].role>>
  ELSE [j \in 1 .. Len(d) |-> d[j].role]

\* the turn-order validation raises for these roles
FailsValidation(roles) ==
  /\ \E j \in 1 .. Len(roles) : j % 2 = 1 /\ roles[j] # "user"
  /\ \A j \in 1 .. Len(roles) : j % 2 = 0 => roles[j] = "assistant"

\* C13: when the turn-order validation rejects some dialog of the batch, be
\* it before or after valid ones, the call never reaches generate: it makes
\* no model call and returns no prediction; and a DialogOrderError is the
\* end of the call.
C13_RejectionFailsBatch ==
  /\ (caller = "chat" /\
        \E i \in 1 .. Len(dialogs) : FailsValidation(SeenRoles(dialogs[i]))) =>
       /\ pc \in {"chat_completion", "dialogs", "raised"}
       /\ calls = <<>> /\ out_tokens = <<>> /\ result = <<>>
  /\ raised = "DialogOrderError" =>
       pc = "raised" /\ calls = <<>> /\ out_tokens = <<>> /\ result = <<>>

\* the second dialog of a batch was rejected after the first, a valid one,
\* had been encoded
C13_Witness ==
  /\ pc = "raised" /\ raised = "DialogOrderError"
  /\ Len(dialogs) = 2 /\ d_idx = 2 /\ Len(prompt_tokens) = 1
  /\ ~FailsValidation(SeenRoles(dialogs[1]))
  /\ dialogs[1][Len(dialogs[1])].role = "user"
  /\ FailsValidation(SeenRoles(dialogs[2]))
  /\ calls = <<>> /\ result = <<>>

\* C14 (as the specification states it): the prompt of an accepted dialog is
\* one segment per consecutive (user, assistant) pair followed by the
\* trailing segment of the final user message, which is in no pair segment.
C14_PromptSegments ==
  caller = "chat" =>
    \A i \in 1 .. Len(prompt_tokens) :
      LET nd == normalized[i]
          n == Len(nd)
          pairs == (n - 1) \div 2
      IN  /\ n % 2 = 1
          /\ \A j \in 1 .. pairs :
               nd[2 * j - 1].role = "user" /\ nd[2 * j].role = "assistant"
          /\ prompt_tokens[i] =
               Concat([j \in 1 .. pairs |-> EncodePair(nd[2 * j - 1], nd[2 * j])])
                 \o EncodeLast(nd[n])

\* the probability sorted at rank r, before the mask
SortedProb(r) == probs_in[probs_idx[r]]

\* the mass ranked strictly before rank r
MassBefore(r) == SumSeq([k \in 1 .. (r - 1) |-> SortedProb(k)])

\* C15: for every distribution and threshold p >= 0, the top-ranked token
\* survives the mask, and the returned token has non-zero probability and at
\* most p of the mass ranked strictly before it.
C15_NeverExcluded ==
  /\ sp_pc \in {"draw", "done"} => probs_sort[1] > 0
  /\ sp_pc = "done" =>
       /\ probs_in[drawn_token] > 0
       /\ MassBefore(drawn_rank) <= p_in
       /\ drawn_token = probs_idx[drawn_rank]

\* a token of the second rank was returned from a distribution whose third
\* rank the threshold excludes
C15_Witness ==
  /\ sp_pc = "done" /\ drawn_rank = 2
  /\ SortedProb(3) > 0 /\ MassBefore(3) > p_in
  /\ probs_sort[3] = 0

\* the tokens a draw can return
Returnable == {probs_idx[r] : r \in {k \in Ranks : probs_sort[k] > 0}}

\* the tokens of the first k ranks
Prefix(k) == {probs_idx[r] : r \in 1 .. k}

\* C16 (as the specification states it): for p in (0, 1] the returnable
\* tokens are the smallest sorted prefix whose cumulative probability
\* reaches p.
C16_SmallestPrefixReaching ==
  (sp_pc = "draw" /\ p_in \in 1 .. ProbGrid) =>
    \E k \in Ranks :
      /\ MassBefore(k + 1) >= p_in
      /\ MassBefore(k) < p_in
      /\ Returnable = Prefix(k)

\* C16: for p in (0, 1] the returnable tokens are the smallest sorted prefix
\* whose cumulative probability exceeds p, and every token of non-zero
\* probability when no prefix exceeds p.
C16_SmallestPrefixExceeding ==
  (sp_pc = "draw" /\ p_in \in 1 .. ProbGrid) =>
    \/ \E k \in Ranks :
         /\ MassBefore(k + 1) > p_in
         /\ MassBefore(k) <= p_in
         /\ Returnable = Prefix(k)
    \/ /\ p_in = ProbGrid
       /\ Returnable = {t \in Candidates : probs_in[t] > 0}

\* the first rank alone sums to exactly p, and the second rank is returnable
C16_Witness ==
  /\ sp_pc = "draw" /\ p_in \in 1 .. ProbGrid
  /\ MassBefore(2) = p_in
  /\ SortedProb(3) > 0
  /\ Returnable = Prefix(2)

\* C17 (as the specification states it): once generate has returned for the
\* batch, the call returns one record per input, in input order, each with
\* the text of its generation, the empty text for an empty generation.
C17_OneRecordPerInput ==
  (Generated /\ pc # "done") =>
    /\ pc = "returned"
    /\ Len(result) = Len(dialogs)
    /\ \A i \in 1 .. Len(dialogs) :
         ~HasReservedTag(dialogs[i]) =>
           result[i].generation.content = Decode(out_tokens[i])

\* C18: under greedy decoding, with a model whose output for a row depends
\* on the tokens of that row only, the tokens returned for a prompt decoded
\* alone are the tokens returned for it in a batch, whatever the other
\* prompt of the batch.
C18_BatchIndependence ==
  (pc = "done" /\ runs = 2 /\ row_alone > 0 /\ temperature = 0) =>
    out_tokens[1] = prev_out[row_alone]

\* the prompt shared its batch with a longer prompt, the loop of the batch
\* went on after this row had emitted end-of-sequence, and tokens were
\* returned for it
C18_Witness ==
  /\ pc = "done" /\ runs = 2 /\ row_alone > 0 /\ temperature = 0
  /\ Len(prev_prompts) = 2
  /\ \E other \in 1 .. 2 :
       /\ other # row_alone
       /\ Len(prev_prompts[other]) > Len(prompt_tokens[1])
       /\ prev_prompts[other] # prompt_tokens[1]
  /\ ~echo
  /\ Len(out_tokens[1]) > 0
  /\ Len(out_tokens[1]) < max_gen_len
  /\ out_tokens[1] = prev_out[row_alone]

\* C19: the first forward call covers columns [0, min_prompt_len) from start
\* position 0; every later call covers the one column that follows the
\* window before it, from that column as start position; so the windows up
\* to the call at cur_pos tile [0, cur_pos), and prev_pos, the start of each
\* call, never decreases.
C19_Windows ==
  (Started /\ caller = "direct") =>
    /\ Len(calls) >= 1 =>
         calls[1] = [lo |-> 0, hi |-> min_prompt_len, start |-> 0]
    /\ \A c \in 2 .. Len(calls) :
         /\ calls[c].lo = calls[c - 1].hi
         /\ calls[c].hi = calls[c].lo + 1
         /\ calls[c].hi = min_prompt_len + c - 1
         /\ calls[c].start = calls[c].lo
         /\ calls[c].start >= calls[c - 1].start
    /\ Len(calls) >= 1 => prev_pos >= calls[Len(calls)].start
    /\ pc = "loop" => Len(calls) = cur_pos - min_prompt_len
    /\ (pc = "loop" /\ Len(calls) >= 1) => calls[Len(calls)].hi = cur_pos - 1

\* a first call over two prompt columns was followed by a call over one column
C19_Witness ==
  /\ pc = "post" /\ caller = "direct"
  /\ Len(calls) >= 2
  /\ calls[1].hi - calls[1].lo >= 2
  /\ calls[2] = [lo |-> min_prompt_len, hi |-> min_prompt_len + 1,
                  start |-> min_prompt_len]
  /\ prev_pos = min_prompt_len + 1

\* C20: while the loop runs and after it, eos_reached of a row is true
\* exactly when an iteration at a column past the row's prompt has written
\* the end-of-sequence id in the row; an end-of-sequence id of the prompt
\* does not count.
C20_EosReached ==
  (Started /\ caller = "direct") =>
    \A k \in Rows : eos_reached[k] <=> EmittedEos(k)

\* the loop has passed an end-of-sequence id inside the prompt of one row,
\* whose flag is not set, while the flag of the other row is set
C20_Witness ==
  /\ pc = "loop" /\ caller = "direct" /\ bsz = 2
  /\ \E k \in Rows : \E m \in Rows :
       /\ \E j \in min_prompt_len .. (Len(prompt_tokens[k]) - 1) :
            At(tokens[k], j) = eos_id /\ j <= Written
       /\ ~eos_reached[k]
       /\ eos_reached[m]

\* every prompt of the batch is as long as the matrix is wide
AllPromptsFill == \A k \in Rows : Len(prompt_tokens[k]) = total_len

\* C21: when every prompt has length total_len, generate makes one forward
\* call, over all columns from start position 0, never enters the loop,
\* leaves the matrix as the prompts filled it, and without echo returns the
\* empty sequence for every input.
C21_SeedingCallOnly ==
  (Started /\ caller = "direct" /\ AllPromptsFill) =>
    /\ pc # "loop"
    /\ calls = <<[lo |-> 0, hi |-> total_len, start |-> 0]>>
    /\ prev_pos = 0
    /\ tokens = prompt_tokens
    /\ (pc = "done" /\ ~echo) => \A k \in Rows : out_tokens[k] = <<>>

\* two prompts of max_seq_len tokens each were given with room asked for
\* generation, and the call has returned
C21_Witness ==
  /\ pc = "done" /\ caller = "direct" /\ bsz = 2 /\ ~echo
  /\ AllPromptsFill
  /\ total_len = max_seq_len /\ max_gen_len >= 1 /\ total_len >= 2
  /\ Len(calls) = 1
  /\ out_tokens = <<<<>>, <<>>>>

\* the columns of row k that the returned slice is taken from
SliceStart(k) == IF echo THEN 0 ELSE Len(prompt_tokens[k])
SliceEnd(k) == Min(total_len, Len(prompt_tokens[k]) + max_gen_len)

\* C23: the sequence returned for input k is the prefix of the columns
\* [start, len(prompt_k) + max_gen_len) of row k that ends right before the
\* first end-of-sequence id of those columns, and all of them when there is
\* none; so it holds no end-of-sequence id and nothing written after one.
C23_OutputSlice ==
  (pc = "done" /\ caller = "direct") =>
    \A k \in Rows :
      LET out == out_tokens[k]
          n == Len(out)
          from == SliceStart(k)
      IN  /\ from + n <= SliceEnd(k)
          /\ \A j \in 1 .. n : out[j] = At(tokens[k], from + j - 1)
          /\ \A j \in 1 .. n : out[j] # eos_id
          /\ from + n < SliceEnd(k) => At(tokens[k], from + n) = eos_id

\* a row emitted end-of-sequence, the loop went on for the other row and
\* wrote a further token into this row inside the slice; the tokens before
\* the end-of-sequence id were returned
C23_Witness ==
  /\ pc = "done" /\ caller = "direct" /\ bsz = 2
  /\ \E k \in Rows :
       LET n == Len(out_tokens[k])
           cut == SliceStart(k) + n
       IN  /\ n >= 1
           /\ cut >= Len(prompt_tokens[k])
           /\ cut + 1 < SliceEnd(k)
           /\ At(tokens[k], cut) = eos_id
           /\ At(tokens[k], cut + 1) \notin {eos_id, pad_id}

\* C22: with log-probabilities requested, generate returns for every sequence
\* a list of log-probabilities as long as its list of tokens, taken from the
\* same columns; without, the second component of the result is None.
C22_LogprobsParallel ==
  (pc = "done" /\ caller = "direct") =>
    IF logprobs
      THEN /\ Len(out_logprobs) = bsz
           /\ \A k \in Rows :
                /\ Len(out_logprobs[k]) = Len(out_tokens[k])
                /\ \A j \in 1 .. Len(out_logprobs[k]) :
                     out_logprobs[k][j] =
                       At(token_logprobs[k], SliceStart(k) + j - 1)
      ELSE out_logprobs = NoLogprobs

\* log-probabilities were requested and a returned list was cut at an
\* end-of-sequence id before the end of the slice
C22_Witness ==
  /\ pc = "done" /\ caller = "direct" /\ logprobs /\ bsz = 2
  /\ \E k \in Rows :
       /\ Len(out_logprobs[k]) >= 1
       /\ Len(out_logprobs[k]) = Len(out_tokens[k])
       /\ SliceStart(k) + Len(out_tokens[k]) < SliceEnd(k)
       /\ \E j \in 1 .. Len(out_logprobs[k]) : out_logprobs[k][j] # 0

\* the roles and contents of a dialog, in order
RolesAndContents(d) ==
  [j \in 1 .. Len(d) |-> <<d[j].role, d[j].content>>]

\* C24: no step of chat_completion, be it one that raises, changes the
\* number of the caller's dialogs, or the number, order, role or content of
\* the messages of any of them.
C24_CallerDialogsKept ==
  [][/\ Len(dialogs') = Len(dialogs)
     /\ \A i \in 1 .. Len(dialogs) :
          RolesAndContents(dialogs'[i]) = RolesAndContents(dialogs[i])]_vars

\* the call has returned for a batch of a folded dialog of three messages,
\* still three in the caller's list, and a dialog that was not folded, whose
\* message carries the dialog_id
C24_Witness ==
  /\ pc = "returned" /\ Len(dialogs) = 2
  /\ \E i \in 1 .. 2 : \E j \in 1 .. 2 :
       /\ Len(dialogs[i]) = 3
       /\ dialogs[i][1].role = "system"
       /\ Len(normalized[i]) = 1
       /\ \A m \in 1 .. 3 : dialogs[i][m].dialog_id = NoId
       /\ dialogs[j][1].role = "user"
       /\ dialogs[j][1].dialog_id # NoId

\* C27 (as the specification states it): the record returned for a flagged
\* dialog does not depend on the tokens generated for it: it is the record
\* returned for the dialog when nothing is generated, the fields tokens and
\* logprobs included when log-probabilities are requested.
C27_UnsafeRecordFixed ==
  pc = "returned" =>
    \A i \in 1 .. Len(dialogs) :
      HasReservedTag(dialogs[i]) =>
        result[i] = ChatRecord(TRUE, <<>>, <<>>, logprobs)

\* user and assistant turns alternate, the first one a user turn
Alternates(history) ==
  \A j \in 1 .. Len(history) :
    history[j].role = IF j % 2 = 1 THEN "user" ELSE "assistant"

\* C25: whenever get_response calls chat_completion, the history it passes
\* is non-empty, of odd length, alternating from a user turn and so ending
\* on one; between the calls the history alternates and has even length,
\* which a skipped None input leaves as it is; and no call of the session
\* ends in a rejection by the turn-order validation.
C25_HistoryAlternates ==
  steve_pc # "idle" =>
    /\ Alternates(message_history)
    /\ steve_pc = "ask" => Len(message_history) % 2 = 0
    /\ steve_pc = "respond" => Len(message_history) % 2 = 1
    /\ steve_pc = "calling" =>
         /\ dialogs = <<dialogs[1]>>
         /\ Len(dialogs[1]) % 2 = 1
         /\ Alternates(dialogs[1])
         /\ dialogs[1][Len(dialogs[1])].role = "user"
         /\ RolesAndContents(dialogs[1]) = RolesAndContents(message_history)
    /\ raised \notin {"DialogOrderError", "AssertionError"}

\* chat_completion is called on a history of three messages in a session
\* that was asked three times: once the input was None and was skipped
C25_Witness ==
  /\ steve_pc = "calling" /\ pc = "chat_completion"
  /\ Len(message_history) = 3
  /\ asked = MaxInputs
  /\ dialogs = <<message_history>>

\* the text holds one of the four reserved tags
TextHasTag(text) ==
  \/ IsSubstring(<<"[INST]">>, text)
  \/ IsSubstring(<<"[/INST]">>, text)
  \/ IsSubstring(<<"<<SYS>>">>, text)
  \/ IsSubstring(<<"<</SYS>>">>, text)

\* C26: every response that entered the history after a message holding a
\* reserved tag is UNSAFE_ERROR, and UNSAFE_ERROR holds no reserved tag.
C26_UnsafePersists ==
  steve_pc # "idle" =>
    /\ \A j \in 1 .. Len(message_history) :
         (/\ message_history[j].role = "assistant"
          /\ \E m \in 1 .. (j - 1) : TextHasTag(message_history[m].content))
           => message_history[j].content = UNSAFE_ERROR
    /\ ~TextHasTag(UNSAFE_ERROR)

\* a message with a tag was refused, and the later message without a tag
\* was refused as well
C26_Witness ==
  /\ steve_pc = "ask" /\ Len(message_history) = 4
  /\ TextHasTag(message_history[1].content)
  /\ ~TextHasTag(message_history[3].content)
  /\ message_history[2].content = UNSAFE_ERROR
  /\ message_history[4].content = UNSAFE_ERROR

====
